---- MODULE Spec2Model ----
(***************************************************************************)
(* Model of CibusCatalogScraper (src/script.py): the raw-text scanner      *)
(* parse_raw_text_data, the normalizer clean_exhibitors_data, the page     *)
(* extractors and their coordinator, the constructor, the page fetch and   *)
(* scrape_exhibitors_list.                                                 *)
(*                                                                         *)
(* A Python str is modelled as a sequence of atoms.  An atom is one        *)
(* whitespace character (" " or "\n"), one hyphen "-", or a word: a        *)
(* maximal run of other characters.  Concatenation, strip, split and       *)
(* equality of strings are the same operations on atom sequences.          *)
(***************************************************************************)
EXTENDS Integers, Sequences, FiniteSets, TLC

VARIABLES
    text,               \* parse_raw_text_data: the argument `text`
    lines,              \* parse_raw_text_data: the local `lines`
    i,                  \* parse_raw_text_data: the cursor `i` (0-based, as in the source)
    current_exhibitor,  \* parse_raw_text_data: the local `current_exhibitor` (<<>> is the empty dict)
    exhibitors,         \* the list `exhibitors`: the scanner's result, the normalizer's argument
    given,              \* the field values of `exhibitors` when clean_exhibitors_data was entered
    cleaned,            \* clean_exhibitors_data: the returned list `cleaned`
    kept,               \* the positions in `exhibitors` of the objects appended to `cleaned`
    recleaned,          \* the list returned by a second clean_exhibitors_data call on `cleaned`
    pc,                 \* position of the program
    page,               \* extract_exhibitors_from_page: the argument `soup`
    calls,              \* the calls made by the running method, in order, each with its result
    result,             \* the value the running method returned
    raised,             \* the exception that left the running method ("" when none)
    exhibitors_data,    \* the field self.exhibitors_data
    raw_text_data,      \* the field self.raw_text_data
    use_selenium,       \* the field self.use_selenium
    driver,             \* the field self.driver
    logger,             \* the field self.logger ("unset" until __init__ assigns it)
    limit,              \* scrape_exhibitors_list: the argument `limit`
    url,                \* get_page / get_page_requests: the argument `url`
    max_retries,        \* get_page_requests: the argument `max_retries`
    attempt,            \* get_page_requests: the loop variable `attempt`
    slept               \* the durations passed to time.sleep, in order

\* the state of the scanner and the normalizer
textVars == <<text, lines, i, current_exhibitor, exhibitors, given, cleaned, kept, recleaned>>

\* the scraper object's fields
fieldVars == <<exhibitors_data, raw_text_data, use_selenium, driver, logger>>

\* arguments, locals and outcome of the page, fetch and scrape methods
callVars == <<page, calls, result, raised, limit, url, max_retries, attempt, slept>>

scraperVars == <<fieldVars, callVars>>

vars == <<textVars, pc, scraperVars>>

\* None
None == "None"

\* The scraper object after a construction with use_selenium=False, no method running.
ScraperIdle ==
    /\ exhibitors_data = <<>>
    /\ raw_text_data = <<>>
    /\ use_selenium = FALSE
    /\ driver = None
    /\ logger = "set"
    /\ page = None
    /\ calls = <<>>
    /\ result = None
    /\ raised = ""
    /\ limit = <<>>
    /\ url = None
    /\ max_retries = 0
    /\ attempt = 0
    /\ slept = <<>>

(***************************************************************************)
(* Bounds of the model.                                                    *)
(***************************************************************************)
MaxRecords == 2     \* longest list handed directly to clean_exhibitors_data
MaxLines == 3       \* longest free text, in lines
MaxBlocks == 2      \* most catalog blocks in a block-structured text
MaxElements == 2    \* most class-selected elements on a page
MaxRows == 2        \* most rows of a table
MaxRetries == 4     \* largest max_retries passed to get_page_requests
MaxLimit == 2       \* largest limit passed to scrape_exhibitors_list

(***************************************************************************)
(* Strings.                                                                *)
(***************************************************************************)
EmptyStr == <<>>

\* str truthiness: a str is falsy iff it is empty
Truthy(s) == s # EmptyStr

\* the characters str.strip() removes and \s matches
IsSpace(c) == c \in {" ", "\n"}

\* str.strip()
strip(s) ==
    LET nz == {k \in 1..Len(s) : ~IsSpace(s[k])}
    IN  IF nz = {} THEN EmptyStr
        ELSE SubSeq(s, CHOOSE a \in nz : \A b \in nz : a <= b,
                       CHOOSE a \in nz : \A b \in nz : a >= b)

\* dict truthiness: a dict is falsy iff it has no key
DictTruthy(d) == DOMAIN d # {}

\* dict.get(field, '')
Get(d, field) == IF field \in DOMAIN d THEN d[field] ELSE EmptyStr

(***************************************************************************)
(* Regular expressions of parse_raw_text_data, over atom sequences.  A     *)
(* word is matched whole: the words of the model are those below, which    *)
(* either are or are not the token a pattern asks for.                     *)
(***************************************************************************)
\* words matched by \d+
DigitWords == {"1", "2", "4", "5", "12"}

\* words matched by [A-Z]
CapitalLetters == {"A", "B"}

\* the atom at position p, "" when there is none
At(s, p) == IF p \in 1..Len(s) THEN s[p] ELSE ""

\* \s+ at position p: the position after the whitespace run, 0 when no
\* whitespace stands at p
SkipSpaces(s, p) ==
    IF At(s, p) = "" \/ ~IsSpace(At(s, p)) THEN 0
    ELSE LET rest == {k \in p..Len(s) : ~IsSpace(s[k])}
         IN  IF rest = {} THEN Len(s) + 1
             ELSE CHOOSE a \in rest : \A b \in rest : a <= b

NoMatch == [found |-> FALSE]

\* \s+-\s+Stand\s+([A-Z]\s+\d+) after a pavilion group s[q1..e]
MarkerTail(s, q1, e) ==
    LET q2 == SkipSpaces(s, e + 1)
        q3 == SkipSpaces(s, q2 + 1)
        q4 == SkipSpaces(s, q3 + 1)
        q5 == SkipSpaces(s, q4 + 1)
    IN  IF /\ q2 > 0 /\ At(s, q2) = "-"
           /\ q3 > 0 /\ At(s, q3) = "Stand"
           /\ q4 > 0 /\ At(s, q4) \in CapitalLetters
           /\ q5 > 0 /\ At(s, q5) \in DigitWords
        THEN [found |-> TRUE, group1 |-> SubSeq(s, q1, e), group2 |-> SubSeq(s, q4, q5)]
        ELSE NoMatch

\* Padiglione\s+(\d+(?:-\d+)?)\s+-\s+Stand\s+([A-Z]\s+\d+) matched at position p;
\* the optional -\d+ is tried first (greedy), then left out
MarkerAt(s, p) ==
    IF At(s, p) # "Padiglione" THEN NoMatch
    ELSE LET q1 == SkipSpaces(s, p + 1)
         IN  IF q1 = 0 \/ At(s, q1) \notin DigitWords THEN NoMatch
             ELSE LET long == IF At(s, q1 + 1) = "-" /\ At(s, q1 + 2) \in DigitWords
                              THEN MarkerTail(s, q1, q1 + 2)
                              ELSE NoMatch
                  IN  IF long.found THEN long ELSE MarkerTail(s, q1, q1)

\* re.search(r'Padiglione\s+(\d+(?:-\d+)?)\s+-\s+Stand\s+([A-Z]\s+\d+)', line):
\* the leftmost match
pavilion_match(line) ==
    LET hits == {p \in 1..Len(line) : MarkerAt(line, p).found}
    IN  IF hits = {} THEN NoMatch
        ELSE MarkerAt(line, CHOOSE a \in hits : \A b \in hits : a <= b)

\* re.search(r'Padiglione', line)
SearchPadiglione(line) == \E p \in 1..Len(line) : line[p] = "Padiglione"

\* Variant: the keyword list lacks 'Marchio'.
TypeKeywordsWithoutMarchio ==
    {<<"Co", "-", "espositore">>, <<"Azienda", " ", "Rappresentata">>}

\* ['Co-espositore', 'Marchio', 'Azienda Rappresentata']
TypeKeywords ==
    {<<"Co", "-", "espositore">>, <<"Marchio">>, <<"Azienda", " ", "Rappresentata">>}

(***************************************************************************)
(* parse_raw_text_data                                                     *)
(***************************************************************************)
\* text.split('\n')
RECURSIVE split(_)
split(s) ==
    LET nl == {k \in 1..Len(s) : s[k] = "\n"}
    IN  IF nl = {} THEN <<s>>
        ELSE LET p == CHOOSE a \in nl : \A b \in nl : a <= b
             IN  <<SubSeq(s, 1, p - 1)>> \o split(SubSeq(s, p + 1, Len(s)))

\* [line.strip() for line in text.split('\n') if line.strip()]
RECURSIVE StrippedNonEmpty(_)
StrippedNonEmpty(ls) ==
    IF ls = <<>> THEN <<>>
    ELSE IF Truthy(strip(Head(ls)))
         THEN <<strip(Head(ls))>> \o StrippedNonEmpty(Tail(ls))
         ELSE StrippedNonEmpty(Tail(ls))

\* the dict a marker line starts
NewExhibitor(m) ==
    [pavilion |-> m.group1, stand |-> m.group2, name |-> EmptyStr,
     type |-> <<"Espositore">>, description |-> EmptyStr, products |-> <<>>]

\* Variant: the previous record is appended whether or not one is open.
SealsAlways(cur) == TRUE

\* if current_exhibitor: (before exhibitors.append(current_exhibitor))
Seals(cur) == DictTruthy(cur)

\* exhibitors after the `if current_exhibitor: exhibitors.append(...)` statement
Sealed(exs, cur) == IF Seals(cur) THEN Append(exs, cur) ELSE exs

\* Variant: the lookahead takes any line that is not a type keyword as the name.
LookaheadTakesAnyName(next_line) == TRUE

\* Variant: the lookahead takes as the name any line that is not a full marker.
LookaheadTakesNameUnlessMarker(next_line) == ~pavilion_match(next_line).found

\* if not re.search(r'Padiglione', next_line): (the lookahead's name test)
LookaheadTakesName(next_line) == ~SearchPadiglione(next_line)

\* The lookahead after a marker at cursor i: the new dict and the lines consumed
\* by it (0 or 1).
Lookahead(ls, c, new) ==
    IF c + 1 < Len(ls)
    THEN LET next_line == ls[c + 2]
         IN  IF next_line \in TypeKeywords
             THEN [cur |-> [new EXCEPT !.type = next_line], skip |-> 1]
             ELSE IF LookaheadTakesName(next_line)
                  THEN [cur |-> [new EXCEPT !.name = next_line], skip |-> 1]
                  ELSE [cur |-> new, skip |-> 0]
    ELSE [cur |-> new, skip |-> 0]

\* if 'description' not in current_exhibitor: ... else: ... += ' ' + line
Describe(cur, line) ==
    IF "description" \notin DOMAIN cur
    THEN [d \in DOMAIN cur \cup {"description"} |->
             IF d = "description" THEN line ELSE cur[d]]
    ELSE [cur EXCEPT !.description = cur.description \o <<" ">> \o line]

\* the branch for a line that is neither a marker nor a type keyword and holds
\* no 'Padiglione'
Accumulate(cur, line) ==
    IF DictTruthy(cur) /\ ~Truthy(Get(cur, "name"))
    THEN [cur EXCEPT !.name = line]
    ELSE IF DictTruthy(cur) /\ Truthy(Get(cur, "name"))
         THEN Describe(cur, line)
         ELSE cur

(***************************************************************************)
(* clean_exhibitors_data                                                   *)
(***************************************************************************)
\* the fields the clean-up loop strips
CleanedFields == {"name", "pavilion", "stand", "type", "description"}

\* f"{name}-{pavilion}-{stand}" over the fields as they are when the record is visited
DedupKey(exhibitor) ==
    Get(exhibitor, "name") \o <<"-">> \o Get(exhibitor, "pavilion")
        \o <<"-">> \o Get(exhibitor, "stand")

\* Variant: every record is kept whatever was seen before.
KeepsWithoutSeen(key, seen, exhibitor) ==
    Truthy(Get(exhibitor, "name")) \/ Truthy(Get(exhibitor, "pavilion"))

\* key not in seen and (exhibitor.get('name') or exhibitor.get('pavilion'))
Keeps(key, seen, exhibitor) ==
    /\ key \notin seen
    /\ Truthy(Get(exhibitor, "name")) \/ Truthy(Get(exhibitor, "pavilion"))

\* exhibitor[field] = str(exhibitor[field]).strip() for each listed field present
CleanUp(exhibitor) ==
    [f \in DOMAIN exhibitor |->
        IF f \in CleanedFields THEN strip(exhibitor[f]) ELSE exhibitor[f]]

\* One pass of the for loop from position k on.  st.exhibitors is the argument
\* list, whose kept dicts are stripped in place; st.kept lists the positions of
\* the dicts appended to st.cleaned.
RECURSIVE CleanLoop(_, _)
CleanLoop(k, st) ==
    IF k > Len(st.exhibitors) THEN st
    ELSE LET exhibitor == st.exhibitors[k]
             key == DedupKey(exhibitor)
         IN  IF Keeps(key, st.seen, exhibitor)
             THEN CleanLoop(k + 1,
                     [cleaned    |-> Append(st.cleaned, CleanUp(exhibitor)),
                      seen       |-> st.seen \cup {key},
                      kept       |-> Append(st.kept, k),
                      exhibitors |-> [st.exhibitors EXCEPT ![k] = CleanUp(exhibitor)]])
             ELSE CleanLoop(k + 1, st)

clean_exhibitors_data(exs) ==
    CleanLoop(1, [cleaned |-> <<>>, seen |-> {}, kept |-> <<>>, exhibitors |-> exs])

(***************************************************************************)
(* Records handed directly to clean_exhibitors_data.                       *)
(***************************************************************************)
NameValues == {EmptyStr, <<" ">>, <<"A">>, <<" ", "A">>, <<"A", "-", "1">>}
PavilionValues == {EmptyStr, <<"2">>, <<"1", "-", "2">>}
DescriptionValues == {<<"x">>, <<"y", " ">>}

\* records of one stand, and records of exhibitor A without a stand
RecordValues ==
    [name : NameValues, pavilion : PavilionValues, stand : {<<"B", " ", "5">>},
     type : {<<"Espositore">>}, description : DescriptionValues]
    \cup
    [name : {<<"A">>}, pavilion : PavilionValues, stand : {EmptyStr},
     type : {<<"Espositore">>}, description : {<<"x">>}]

RecordLists == UNION {[1..n -> RecordValues] : n \in 0..MaxRecords}

(***************************************************************************)
(* The normalizer called on an arbitrary list, then on its own result.     *)
(***************************************************************************)
InitClean ==
    /\ exhibitors \in RecordLists
    /\ given = exhibitors
    /\ text = EmptyStr
    /\ lines = <<>>
    /\ i = 0
    /\ current_exhibitor = <<>>
    /\ cleaned = <<>>
    /\ kept = <<>>
    /\ recleaned = <<>>
    /\ pc = "scanned"
    /\ ScraperIdle

\* exhibitors = self.clean_exhibitors_data(exhibitors)
Clean ==
    /\ pc = "scanned"
    /\ LET r == clean_exhibitors_data(exhibitors)
       IN  /\ given' = exhibitors
           /\ cleaned' = r.cleaned
           /\ kept' = r.kept
           /\ exhibitors' = r.exhibitors
    /\ pc' = "cleaned"
    /\ UNCHANGED scraperVars
    /\ UNCHANGED <<text, lines, i, current_exhibitor, recleaned>>

\* clean_exhibitors_data applied to the list it returned
CleanAgain ==
    /\ pc = "cleaned"
    /\ recleaned' = clean_exhibitors_data(cleaned).cleaned
    /\ pc' = "recleaned"
    /\ UNCHANGED scraperVars
    /\ UNCHANGED <<text, lines, i, current_exhibitor, exhibitors, given, cleaned, kept>>

NextClean == Clean \/ CleanAgain

SpecClean == InitClean /\ [][NextClean]_vars

(***************************************************************************)
(* Texts handed to parse_raw_text_data.                                    *)
(***************************************************************************)
MarkerA == <<"Padiglione", " ", "4", " ", "-", " ", "Stand", " ", "A", " ", "12">>
MarkerB ==
    <<"Hall", " ", "Padiglione", " ", "1", "-", "2", " ", "-", " ",
      "Stand", " ", "B", " ", "5">>
AcmeFoods == <<"Acme", " ", "Foods">>

\* raw lines of a free text: markers, type keywords, names, a line with
\* surrounding blanks, a line naming a pavilion without being a marker, a
\* blank line
LineValues ==
    {MarkerA, MarkerB, <<"Marchio">>, <<"Co", "-", "espositore">>, AcmeFoods,
     <<" ", "foo", " ">>, <<"Padiglione", " ", "Centrale">>, <<" ">>}

\* '\n'.join(ls)
RECURSIVE JoinLines(_)
JoinLines(ls) ==
    IF ls = <<>> THEN EmptyStr
    ELSE IF Len(ls) = 1 THEN Head(ls)
         ELSE Head(ls) \o <<"\n">> \o JoinLines(Tail(ls))

FreeTexts == {JoinLines(ls) : ls \in UNION {[1..n -> LineValues] : n \in 0..MaxLines}}

\* a catalog block: marker line, name line, type-keyword line
BlockValues ==
    {JoinLines(<<m, n, k>>) :
        m \in {MarkerA, MarkerB}, n \in {AcmeFoods, <<"Beta">>},
        k \in {<<"Marchio">>, <<"Azienda", " ", "Rappresentata">>}}

BlockTexts == {JoinLines(bs) : bs \in UNION {[1..n -> BlockValues] : n \in 1..MaxBlocks}}

(***************************************************************************)
(* parse_raw_text_data, one action per loop iteration, then the normalizer *)
(* on its result.                                                          *)
(***************************************************************************)
Init ==
    /\ text \in FreeTexts \cup BlockTexts
    /\ lines = <<>>
    /\ i = 0
    /\ current_exhibitor = <<>>
    /\ exhibitors = <<>>
    /\ given = <<>>
    /\ cleaned = <<>>
    /\ kept = <<>>
    /\ recleaned = <<>>
    /\ pc = "start"
    /\ ScraperIdle

\* lines 123-129: the locals before the loop
StartScan ==
    /\ pc = "start"
    /\ lines' = StrippedNonEmpty(split(text))
    /\ i' = 0
    /\ current_exhibitor' = <<>>
    /\ exhibitors' = <<>>
    /\ pc' = "scan"
    /\ UNCHANGED scraperVars
    /\ UNCHANGED <<text, given, cleaned, kept, recleaned>>

\* an iteration on a line the marker pattern matches (lines 136-161, 178)
ScanMarker ==
    /\ pc = "scan"
    /\ i < Len(lines)
    /\ pavilion_match(lines[i + 1]).found
    /\ LET look == Lookahead(lines, i, NewExhibitor(pavilion_match(lines[i + 1])))
       IN  /\ exhibitors' = Sealed(exhibitors, current_exhibitor)
           /\ current_exhibitor' = look.cur
           /\ i' = i + look.skip + 1
    /\ UNCHANGED scraperVars
    /\ UNCHANGED <<text, lines, given, cleaned, kept, recleaned, pc>>

\* an iteration on a line equal to a type keyword (lines 163-165, 178)
ScanKeyword ==
    /\ pc = "scan"
    /\ i < Len(lines)
    /\ ~pavilion_match(lines[i + 1]).found
    /\ lines[i + 1] \in TypeKeywords
    /\ current_exhibitor' =
          IF DictTruthy(current_exhibitor)
          THEN [current_exhibitor EXCEPT !.type = lines[i + 1]]
          ELSE current_exhibitor
    /\ i' = i + 1
    /\ UNCHANGED scraperVars
    /\ UNCHANGED <<text, lines, exhibitors, given, cleaned, kept, recleaned, pc>>

\* an iteration on any other line that holds no 'Padiglione' (lines 167-176, 178)
ScanOther ==
    /\ pc = "scan"
    /\ i < Len(lines)
    /\ ~pavilion_match(lines[i + 1]).found
    /\ lines[i + 1] \notin TypeKeywords
    /\ Truthy(lines[i + 1]) /\ ~SearchPadiglione(lines[i + 1])
    /\ current_exhibitor' = Accumulate(current_exhibitor, lines[i + 1])
    /\ i' = i + 1
    /\ UNCHANGED scraperVars
    /\ UNCHANGED <<text, lines, exhibitors, given, cleaned, kept, recleaned, pc>>

\* an iteration on a line no branch takes: it holds 'Padiglione' without
\* matching the marker pattern (line 178 only)
ScanIgnored ==
    /\ pc = "scan"
    /\ i < Len(lines)
    /\ ~pavilion_match(lines[i + 1]).found
    /\ lines[i + 1] \notin TypeKeywords
    /\ ~(Truthy(lines[i + 1]) /\ ~SearchPadiglione(lines[i + 1]))
    /\ i' = i + 1
    /\ UNCHANGED scraperVars
    /\ UNCHANGED <<text, lines, current_exhibitor, exhibitors, given, cleaned, kept,
                   recleaned, pc>>

\* the loop ends: the open record is appended and the list returned (lines 180-184)
ScanEnd ==
    /\ pc = "scan"
    /\ i >= Len(lines)
    /\ exhibitors' = Sealed(exhibitors, current_exhibitor)
    /\ pc' = "scanned"
    /\ UNCHANGED scraperVars
    /\ UNCHANGED <<text, lines, i, current_exhibitor, given, cleaned, kept, recleaned>>

Next ==
    \/ StartScan
    \/ ScanMarker
    \/ ScanKeyword
    \/ ScanOther
    \/ ScanIgnored
    \/ ScanEnd
    \/ Clean

Spec == Init /\ [][Next]_vars

(***************************************************************************)
(* parse_raw_text_data as one call: the loop of the actions above, run to  *)
(* its end.                                                                *)
(***************************************************************************)
RECURSIVE ScanFrom(_, _, _, _)
ScanFrom(ls, c, cur, exs) ==
    IF c >= Len(ls) THEN Sealed(exs, cur)
    ELSE LET line == ls[c + 1]
         IN  IF pavilion_match(line).found
             THEN LET look == Lookahead(ls, c, NewExhibitor(pavilion_match(line)))
                  IN  ScanFrom(ls, c + look.skip + 1, look.cur, Sealed(exs, cur))
             ELSE IF line \in TypeKeywords
                  THEN ScanFrom(ls, c + 1,
                                IF DictTruthy(cur) THEN [cur EXCEPT !.type = line] ELSE cur,
                                exs)
                  ELSE IF Truthy(line) /\ ~SearchPadiglione(line)
                       THEN ScanFrom(ls, c + 1, Accumulate(cur, line), exs)
                       ELSE ScanFrom(ls, c + 1, cur, exs)

parse_raw_text_data(t) == ScanFrom(StrippedNonEmpty(split(t)), 0, <<>>, <<>>)

(***************************************************************************)
(* Pages.  A page (the parsed markup tree) is modelled by what the         *)
(* extractors ask of it: the elements find_all selects by class, the       *)
(* tables, and the text nodes outside both.  An element is the text of its *)
(* first link/heading/strong descendant (head: <<>> when it has none,      *)
(* <<s>> when it has one with text s) followed by its other text (tail).   *)
(* An Optional[Dict] is <<>> for None and <<d>> for the dict d.  A table is its rows, each a list of *)
(* cell texts.  `broken` and `fail_at` mark the content on which an        *)
(* exception is raised while it is processed (fail_at: the row, 0 = none). *)
(***************************************************************************)
\* element.get_text()
ElementText(element) ==
    (IF element.head = <<>> THEN EmptyStr ELSE element.head[1]) \o element.tail

\* re.search(r'Padiglione\s+(\d+(?:-\d+)?)', s) at position p
PavilionAt(s, p) ==
    IF At(s, p) # "Padiglione" THEN NoMatch
    ELSE LET q1 == SkipSpaces(s, p + 1)
         IN  IF q1 = 0 \/ At(s, q1) \notin DigitWords THEN NoMatch
             ELSE IF At(s, q1 + 1) = "-" /\ At(s, q1 + 2) \in DigitWords
                  THEN [found |-> TRUE, group1 |-> SubSeq(s, q1, q1 + 2)]
                  ELSE [found |-> TRUE, group1 |-> SubSeq(s, q1, q1)]

\* re.search(r'Padiglione\s+(\d+(?:-\d+)?)', s): the leftmost match
search_pavilion(s) ==
    LET hits == {p \in 1..Len(s) : PavilionAt(s, p).found}
    IN  IF hits = {} THEN NoMatch
        ELSE PavilionAt(s, CHOOSE a \in hits : \A b \in hits : a <= b)

\* re.search(r'Stand\s+([A-Z]\s+\d+)', s) at position p
StandAt(s, p) ==
    IF At(s, p) # "Stand" THEN NoMatch
    ELSE LET q1 == SkipSpaces(s, p + 1)
             q2 == SkipSpaces(s, q1 + 1)
         IN  IF /\ q1 > 0 /\ At(s, q1) \in CapitalLetters
                /\ q2 > 0 /\ At(s, q2) \in DigitWords
             THEN [found |-> TRUE, group1 |-> SubSeq(s, q1, q2)]
             ELSE NoMatch

\* re.search(r'Stand\s+([A-Z]\s+\d+)', s): the leftmost match
search_stand(s) ==
    LET hits == {p \in 1..Len(s) : StandAt(s, p).found}
    IN  IF hits = {} THEN NoMatch
        ELSE StandAt(s, CHOOSE a \in hits : \A b \in hits : a <= b)

\* m.group(1) if m else ''
GroupOrEmpty(m) == IF m.found THEN m.group1 ELSE EmptyStr

\* kw in s (substring)
Contains(s, kw) ==
    \E p \in 1..(Len(s) - Len(kw) + 1) : SubSeq(s, p, p + Len(kw) - 1) = kw

CoEspositore == <<"Co", "-", "espositore">>
Marchio == <<"Marchio">>
AziendaRappresentata == <<"Azienda", " ", "Rappresentata">>
Espositore == <<"Espositore">>

(***************************************************************************)
(* extract_exhibitor_from_element                                          *)
(***************************************************************************)
\* Variant: 'Marchio' is tested before 'Co-espositore'.
ElementTypeMarchioFirst(text_content) ==
    IF Contains(text_content, Marchio) THEN Marchio
    ELSE IF Contains(text_content, CoEspositore) THEN CoEspositore
         ELSE IF Contains(text_content, AziendaRappresentata) THEN AziendaRappresentata
              ELSE Espositore

\* the if/elif chain over text_content; 'Espositore' is the initial value
ElementType(text_content) ==
    IF Contains(text_content, CoEspositore) THEN CoEspositore
    ELSE IF Contains(text_content, Marchio) THEN Marchio
         ELSE IF Contains(text_content, AziendaRappresentata) THEN AziendaRappresentata
              ELSE Espositore

\* Variant: the dict is returned whether or not it is identified.
ElementReturnsAlways(exhibitor_data) == <<exhibitor_data>>

\* return exhibitor_data if exhibitor_data['name'] or exhibitor_data['pavilion'] else None
ElementReturns(exhibitor_data) ==
    IF Truthy(exhibitor_data.name) \/ Truthy(exhibitor_data.pavilion)
    THEN <<exhibitor_data>>
    ELSE <<>>

extract_exhibitor_from_element(element) ==
    IF element.broken THEN <<>>     \* except Exception: log, return None
    ELSE LET text_content == ElementText(element)
         IN  ElementReturns(
                 [name |-> IF element.head # <<>> THEN strip(element.head[1]) ELSE EmptyStr,
                  pavilion |-> GroupOrEmpty(search_pavilion(text_content)),
                  stand |-> GroupOrEmpty(search_stand(text_content)),
                  type |-> ElementType(text_content),
                  description |-> EmptyStr,
                  contact_info |-> <<>>])

(***************************************************************************)
(* extract_exhibitors_from_table                                           *)
(***************************************************************************)
\* the dict of a row with at least two cells
RowData(cells) ==
    LET location_text == strip(cells[2])
    IN  [name |-> strip(cells[1]),
         pavilion |-> GroupOrEmpty(search_pavilion(location_text)),
         stand |-> GroupOrEmpty(search_stand(location_text)),
         type |-> Espositore,
         description |-> EmptyStr]

\* Variant: a row is appended whether or not its name is empty.
RowAppendedAlways(acc, cells) ==
    IF Len(cells) >= 2 THEN Append(acc, RowData(cells)) ELSE acc

\* exhibitors after one iteration of the row loop
RowAppended(acc, cells) ==
    IF Len(cells) >= 2 /\ Truthy(RowData(cells).name)
    THEN Append(acc, RowData(cells))
    ELSE acc

\* Variant: an error discards the rows extracted so far.
OnTableErrorEmpty(acc) == <<>>

\* except Exception: log; then `return exhibitors`, the list as it stands
OnTableError(acc) == acc

\* the row loop from row r on, acc being `exhibitors`
RECURSIVE TableLoop(_, _, _)
TableLoop(table, r, acc) ==
    IF r > Len(table.rows) THEN acc
    ELSE IF table.fail_at = r THEN OnTableError(acc)
         ELSE TableLoop(table, r + 1, RowAppended(acc, table.rows[r]))

extract_exhibitors_from_table(table) == TableLoop(table, 1, <<>>)

(***************************************************************************)
(* extract_exhibitors_from_page                                            *)
(***************************************************************************)
\* the cell texts of a list of tables, in document order
RECURSIVE CellTexts(_)
CellTexts(tables) ==
    IF tables = <<>> THEN <<>>
    ELSE LET RECURSIVE RowsCells(_)
             RowsCells(rows) ==
                 IF rows = <<>> THEN <<>> ELSE Head(rows) \o RowsCells(Tail(rows))
         IN  RowsCells(Head(tables).rows) \o CellTexts(Tail(tables))

\* soup.get_text(): the text nodes of the page in document order, one per line
get_text(soup) ==
    JoinLines([k \in 1..Len(soup.elements) |-> ElementText(soup.elements[k])]
              \o soup.extra \o CellTexts(soup.tables))

\* for element in exhibitor_elements: ... if exhibitor_data: exhibitors.append(...)
RECURSIVE Truthies(_)
Truthies(rets) ==
    IF rets = <<>> THEN <<>>
    ELSE Head(rets) \o Truthies(Tail(rets))

\* Variant: the raw text is parsed whatever the structured elements gave.
TriesRawTextAlways(exs) == TRUE

\* if not exhibitors: (before method 2)
TriesRawText(exs) == exs = <<>>

\* Variant: the tables are read whatever the earlier methods gave.
TriesTablesAlways(exs) == TRUE

\* if not exhibitors: (before method 3)
TriesTables(exs) == exs = <<>>

\* Variant: only the latest page text is remembered.
RememberedLastOnly(raw, page_text) == <<page_text>>

\* self.raw_text_data.append(page_text)
Remembered(raw, page_text) == Append(raw, page_text)

\* for table in tables: exhibitors.extend(self.extract_exhibitors_from_table(table))
RECURSIVE Extended(_, _)
Extended(exs, rets) ==
    IF rets = <<>> THEN exs ELSE Extended(exs \o Head(rets), Tail(rets))

ElementCall(k, ret) == [fn |-> "extract_exhibitor_from_element", arg |-> k, ret |-> ret]
ParseCall(t, ret) == [fn |-> "parse_raw_text_data", arg |-> t, ret |-> ret]
TableCall(k, ret) == [fn |-> "extract_exhibitors_from_table", arg |-> k, ret |-> ret]

(***************************************************************************)
(* Pages handed to extract_exhibitors_from_page.                           *)
(***************************************************************************)
KeywordSets == SUBSET {CoEspositore, Marchio, AziendaRappresentata}

\* the keywords of S as running text, lowest priority first
KeywordTail(S) ==
    (IF AziendaRappresentata \in S THEN <<" ">> \o AziendaRappresentata ELSE <<>>)
    \o (IF Marchio \in S THEN <<" ">> \o Marchio ELSE <<>>)
    \o (IF CoEspositore \in S THEN <<" ">> \o CoEspositore ELSE <<>>)

\* a link with no text beside a keyword: neither name nor pavilion
UnidentifiedElement == [head |-> <<<<" ">>>>, tail |-> <<" ", "Marchio">>, broken |-> FALSE]

\* an element on which the extraction raises
BrokenElement == [head |-> <<AcmeFoods>>, tail |-> <<" ">> \o MarkerA, broken |-> TRUE]

\* an element without a name element, naming its pavilion and stand
LocationElement == [head |-> <<>>, tail |-> MarkerB, broken |-> FALSE]

ElementValues ==
    {[head |-> <<AcmeFoods>>, tail |-> KeywordTail(S), broken |-> FALSE] : S \in KeywordSets}
    \cup {UnidentifiedElement, BrokenElement, LocationElement}

RowValues ==
    {<<<<"Beta", " ", "Snacks">>, <<"Padiglione", " ", "2", " ", "-", " ", "Stand", " ", "B", " ", "5">>>>,
     <<EmptyStr, EmptyStr>>,
     <<<<"Solo">>>>,
     <<<<" ", "Gamma", " ">>, <<"n/a">>, <<"x">>>>,
     <<<<"Delta">>, <<" ", "Padiglione", " ", "2">>>>}

RowLists == UNION {[1..n -> RowValues] : n \in 0..MaxRows}

TableValues == {t \in [rows : RowLists, fail_at : 0..MaxRows] : t.fail_at <= Len(t.rows)}

\* rows ["Beta Snacks", "Padiglione 2 - Stand B 5"] and ["", ""]
ScenarioTable ==
    [rows |-> <<<<<<"Beta", " ", "Snacks">>,
                  <<"Padiglione", " ", "2", " ", "-", " ", "Stand", " ", "B", " ", "5">>>>,
                <<EmptyStr, EmptyStr>>>>,
     fail_at |-> 0]

\* a table the scanner finds no marker in
DeltaTable == [rows |-> <<<<<<"Delta">>, <<" ", "Padiglione", " ", "2">>>>>>, fail_at |-> 0]

TableLists ==
    {<<>>} \cup {<<t>> : t \in TableValues}
    \cup {<<t, u>> : t \in {DeltaTable, ScenarioTable}, u \in {DeltaTable, ScenarioTable}}

\* the text nodes outside elements and tables
ExtraValues ==
    {<<>>, <<AcmeFoods>>, <<MarkerA, AcmeFoods, <<"Marchio">>>>, <<MarkerA, MarkerB>>}

Pages ==
    [elements : UNION {[1..n -> ElementValues] : n \in 1..MaxElements},
     extra : {<<>>},
     tables : {<<>>, <<ScenarioTable>>}]
    \cup
    [elements : {<<>>, <<UnidentifiedElement>>, <<BrokenElement>>},
     extra : ExtraValues,
     tables : TableLists]

\* a text an earlier page left in raw_text_data
EarlierText == <<"earlier">>

(***************************************************************************)
(* extract_exhibitors_from_page on one page, method by method; and the     *)
(* two per-item extractors called on their own.                            *)
(***************************************************************************)
InitPage ==
    /\ text = EmptyStr
    /\ lines = <<>>
    /\ i = 0
    /\ current_exhibitor = <<>>
    /\ exhibitors = <<>>
    /\ given = <<>>
    /\ cleaned = <<>>
    /\ kept = <<>>
    /\ recleaned = <<>>
    /\ pc = "page_start"
    /\ page \in Pages
    /\ raw_text_data \in {<<>>, <<EarlierText>>}
    /\ exhibitors_data = <<>>
    /\ use_selenium = FALSE
    /\ driver = None
    /\ logger = "set"
    /\ calls = <<>>
    /\ result = None
    /\ raised = ""
    /\ limit = <<>>
    /\ url = None
    /\ max_retries = 0
    /\ attempt = 0
    /\ slept = <<>>

\* Method 1 (lines 188-199): every selected element is extracted
StructuredMethod ==
    /\ pc = "page_start"
    /\ LET rets == [k \in 1..Len(page.elements) |->
                        extract_exhibitor_from_element(page.elements[k])]
       IN  /\ exhibitors' = Truthies(rets)
           /\ calls' = calls \o [k \in 1..Len(rets) |-> ElementCall(k, rets[k])]
    /\ pc' = "method2"
    /\ UNCHANGED <<text, lines, i, current_exhibitor, given, cleaned, kept, recleaned>>
    /\ UNCHANGED <<fieldVars, page, result, raised, limit, url, max_retries, attempt, slept>>

\* Method 2 (lines 202-206): the page text is remembered and scanned
RawTextMethod ==
    /\ pc = "method2"
    /\ TriesRawText(exhibitors)
    /\ LET page_text == get_text(page)
       IN  /\ raw_text_data' = Remembered(raw_text_data, page_text)
           /\ exhibitors' = parse_raw_text_data(page_text)
           /\ calls' = Append(calls, ParseCall(page_text, parse_raw_text_data(page_text)))
    /\ pc' = "method3"
    /\ UNCHANGED <<text, lines, i, current_exhibitor, given, cleaned, kept, recleaned>>
    /\ UNCHANGED <<exhibitors_data, use_selenium, driver, logger>>
    /\ UNCHANGED <<page, result, raised, limit, url, max_retries, attempt, slept>>

\* Method 2 not taken
RawTextSkipped ==
    /\ pc = "method2"
    /\ ~TriesRawText(exhibitors)
    /\ pc' = "method3"
    /\ UNCHANGED <<textVars, scraperVars>>

\* Method 3 (lines 209-213): every table is extracted
TableMethod ==
    /\ pc = "method3"
    /\ TriesTables(exhibitors)
    /\ LET rets == [k \in 1..Len(page.tables) |->
                        extract_exhibitors_from_table(page.tables[k])]
       IN  /\ exhibitors' = Extended(exhibitors, rets)
           /\ calls' = calls \o [k \in 1..Len(rets) |-> TableCall(k, rets[k])]
    /\ pc' = "page_return"
    /\ UNCHANGED <<text, lines, i, current_exhibitor, given, cleaned, kept, recleaned>>
    /\ UNCHANGED <<fieldVars, page, result, raised, limit, url, max_retries, attempt, slept>>

\* Method 3 not taken
TablesSkipped ==
    /\ pc = "method3"
    /\ ~TriesTables(exhibitors)
    /\ pc' = "page_return"
    /\ UNCHANGED <<textVars, scraperVars>>

\* return exhibitors (line 215)
PageReturn ==
    /\ pc = "page_return"
    /\ result' = exhibitors
    /\ pc' = "page_returned"
    /\ UNCHANGED <<textVars, fieldVars, page, calls, raised, limit, url, max_retries,
                   attempt, slept>>

\* extract_exhibitor_from_element called on one element of the page
ElementAlone ==
    /\ pc = "page_start"
    /\ \E k \in 1..Len(page.elements) :
          LET ret == extract_exhibitor_from_element(page.elements[k])
          IN  /\ calls' = <<ElementCall(k, ret)>>
              /\ result' = ret
    /\ pc' = "item_returned"
    /\ UNCHANGED <<textVars, fieldVars, page, raised, limit, url, max_retries, attempt,
                   slept>>

\* extract_exhibitors_from_table called on one table of the page
TableAlone ==
    /\ pc = "page_start"
    /\ \E k \in 1..Len(page.tables) :
          LET ret == extract_exhibitors_from_table(page.tables[k])
          IN  /\ calls' = <<TableCall(k, ret)>>
              /\ result' = ret
    /\ pc' = "item_returned"
    /\ UNCHANGED <<textVars, fieldVars, page, raised, limit, url, max_retries, attempt,
                   slept>>

NextPage ==
    \/ StructuredMethod
    \/ RawTextMethod
    \/ RawTextSkipped
    \/ TableMethod
    \/ TablesSkipped
    \/ PageReturn
    \/ ElementAlone
    \/ TableAlone

SpecPage == InitPage /\ [][NextPage]_vars

(***************************************************************************)
(* Construction and page fetching: __init__, setup_selenium, get_page,     *)
(* get_page_selenium, get_page_requests.  The network and the browser are  *)
(* the environment: starting Chrome and each fetch attempt succeed or      *)
(* fail.  A fetched page is represented by the URL it was fetched from.    *)
(* An Optional[int] is <<>> for None and <<n>> for the integer n.          *)
(***************************************************************************)
base_url == "cibus-2024/"

\* alternative_urls, in the order of the list
alternative_urls ==
    <<"cibus-2024/espositori/", "cibus-2024/exhibitors/",
      "cibus-2024/elenco-espositori/", "cibus-2024/lista-espositori/">>

Urls == {base_url} \cup {alternative_urls[k] : k \in 1..Len(alternative_urls)}

\* max_retries: int = 3
DefaultMaxRetries == 3

\* Variant: a failed attempt is always followed by another.
RetriesAlways(a, m) == TRUE

\* if attempt < max_retries - 1: (another attempt follows a failed one)
Retries(a, m) == a < m - 1

\* Variant: the delay grows by two seconds per attempt.
BackoffLinear(a) == 2 * a

\* time.sleep(2 ** attempt)
Backoff(a) == 2 ^ a

\* self.session.get(url, timeout=10) in attempt a, and how it ended
FetchAttempt(u, a, ok) == [fn |-> "session.get", arg |-> u, attempt |-> a, ok |-> ok]

\* the state at entry of __init__, use_selenium being its argument
InitFetch ==
    /\ text = EmptyStr
    /\ lines = <<>>
    /\ i = 0
    /\ current_exhibitor = <<>>
    /\ exhibitors = <<>>
    /\ given = <<>>
    /\ cleaned = <<>>
    /\ kept = <<>>
    /\ recleaned = <<>>
    /\ pc = "init"
    /\ use_selenium \in BOOLEAN
    /\ driver = None
    /\ logger = "unset"
    /\ exhibitors_data = <<>>
    /\ raw_text_data = <<>>
    /\ page = None
    /\ calls = <<>>
    /\ result = None
    /\ raised = ""
    /\ limit = <<>>
    /\ url = None
    /\ max_retries = 0
    /\ attempt = 0
    /\ slept = <<>>

\* if use_selenium: (not taken)
InitWithoutSelenium ==
    /\ pc = "init"
    /\ ~use_selenium
    /\ pc' = "init_logging"
    /\ UNCHANGED <<textVars, scraperVars>>

\* setup_selenium, try block: Chrome starts, then self.logger.info(...)
ChromeStarts ==
    /\ pc = "init"
    /\ use_selenium
    /\ driver' = "webdriver"
    /\ pc' = IF logger = "unset" THEN "setup_except" ELSE "init_logging"
    /\ UNCHANGED <<textVars, exhibitors_data, raw_text_data, use_selenium, logger, callVars>>

\* setup_selenium, try block: webdriver.Chrome raises
ChromeFails ==
    /\ pc = "init"
    /\ use_selenium
    /\ pc' = "setup_except"
    /\ UNCHANGED <<textVars, scraperVars>>

\* setup_selenium, except block: self.logger.warning(...), use_selenium = False
SetupExcept ==
    /\ pc = "setup_except"
    /\ IF logger = "unset"
       THEN /\ raised' = "AttributeError"
            /\ pc' = "init_raised"
            /\ UNCHANGED use_selenium
       ELSE /\ use_selenium' = FALSE
            /\ pc' = "init_logging"
            /\ UNCHANGED raised
    /\ UNCHANGED <<textVars, exhibitors_data, raw_text_data, driver, logger>>
    /\ UNCHANGED <<page, calls, result, limit, url, max_retries, attempt, slept>>

\* self.logger = ...; self.exhibitors_data = []; self.raw_text_data = []
InitFinishes ==
    /\ pc = "init_logging"
    /\ logger' = "set"
    /\ exhibitors_data' = <<>>
    /\ raw_text_data' = <<>>
    /\ pc' = "constructed"
    /\ UNCHANGED <<textVars, use_selenium, driver, callVars>>

\* get_page(u); the Selenium path is get_page_selenium as a whole
GetPage ==
    /\ pc = "constructed"
    /\ \E u \in Urls :
          /\ url' = u
          /\ IF use_selenium
             THEN /\ result' \in (IF driver = None THEN {None} ELSE {None, u})
                  /\ pc' = "fetched"
                  /\ UNCHANGED max_retries
             ELSE /\ max_retries' = DefaultMaxRetries
                  /\ pc' = "attempt"
                  /\ UNCHANGED result
    /\ UNCHANGED <<textVars, fieldVars, page, calls, raised, limit, attempt, slept>>

\* get_page_requests(u, m) called with its own max_retries
GetPageRequests ==
    /\ pc = "constructed"
    /\ \E u \in Urls : url' = u
    /\ \E m \in 0..MaxRetries : max_retries' = m
    /\ pc' = "attempt"
    /\ UNCHANGED <<textVars, fieldVars, page, calls, result, raised, limit, attempt, slept>>

\* an attempt succeeds: return BeautifulSoup(response.content, ...)
AttemptSucceeds ==
    /\ pc = "attempt"
    /\ attempt < max_retries
    /\ calls' = Append(calls, FetchAttempt(url, attempt, TRUE))
    /\ result' = url
    /\ pc' = "fetched"
    /\ UNCHANGED <<textVars, fieldVars, page, raised, limit, url, max_retries, attempt, slept>>

\* an attempt raises requests.RequestException
AttemptFails ==
    /\ pc = "attempt"
    /\ attempt < max_retries
    /\ calls' = Append(calls, FetchAttempt(url, attempt, FALSE))
    /\ IF Retries(attempt, max_retries)
       THEN /\ slept' = Append(slept, Backoff(attempt))
            /\ attempt' = attempt + 1
            /\ pc' = "attempt"
            /\ UNCHANGED result
       ELSE /\ result' = None
            /\ pc' = "fetched"
            /\ UNCHANGED <<attempt, slept>>
    /\ UNCHANGED <<textVars, fieldVars, page, raised, limit, url, max_retries>>

\* range(max_retries) is exhausted: the function ends without a return
NoAttemptLeft ==
    /\ pc = "attempt"
    /\ attempt >= max_retries
    /\ result' = None
    /\ pc' = "fetched"
    /\ UNCHANGED <<textVars, fieldVars, page, calls, raised, limit, url, max_retries,
                   attempt, slept>>

NextFetch ==
    \/ InitWithoutSelenium
    \/ ChromeStarts
    \/ ChromeFails
    \/ SetupExcept
    \/ InitFinishes
    \/ GetPage
    \/ GetPageRequests
    \/ AttemptSucceeds
    \/ AttemptFails
    \/ NoAttemptLeft

\* a call that has started goes on to its end
SpecFetch == InitFetch /\ [][NextFetch]_vars /\ WF_vars(NextFetch)

(***************************************************************************)
(* scrape_exhibitors_list.  What get_page gives for a URL is the           *)
(* environment's choice: no page, or one of the pages below.               *)
(***************************************************************************)
\* method 3 and the return, exs being `exhibitors` after method 2
AfterRawText(soup, raw, exs) ==
    [exhibitors |-> IF TriesTables(exs)
                    THEN Extended(exs, [k \in 1..Len(soup.tables) |->
                                           extract_exhibitors_from_table(soup.tables[k])])
                    ELSE exs,
     raw_text_data |-> raw]

\* method 2 and what follows, structured being `exhibitors` after method 1
AfterStructured(soup, raw, structured) ==
    IF TriesRawText(structured)
    THEN AfterRawText(soup, Remembered(raw, get_text(soup)),
                      parse_raw_text_data(get_text(soup)))
    ELSE AfterRawText(soup, raw, structured)

\* extract_exhibitors_from_page as a function of the page and of raw_text_data
extract_exhibitors_from_page(soup, raw) ==
    AfterStructured(soup, raw,
                    Truthies([k \in 1..Len(soup.elements) |->
                                 extract_exhibitor_from_element(soup.elements[k])]))

\* if not exhibitors: (the alternative URLs are tried)
TriesAlternatives(exs) == exs = <<>>

\* Variant: the records of an alternative page are never taken.
AlternativeTakenNever(alt_exhibitors) == FALSE

\* if alt_exhibitors: (extend, break)
AlternativeTaken(alt_exhibitors) == alt_exhibitors # <<>>

\* if limit and len(exhibitors) > limit: exhibitors = exhibitors[:limit]
Limited(exs, lim) ==
    IF lim # <<>> /\ lim[1] # 0 /\ Len(exs) > lim[1]
    THEN SubSeq(exs, 1, lim[1])
    ELSE exs

GetPageCall(u, ok) == [fn |-> "get_page", arg |-> u, ok |-> ok]
ExtractCall(u, ret) == [fn |-> "extract_exhibitors_from_page", arg |-> u, ret |-> ret]

\* a page without records
EmptyPage == [elements |-> <<>>, extra |-> <<AcmeFoods>>, tables |-> <<>>]

\* a page of four elements, the first and the third alike
ElementPage ==
    [elements |-> <<[head |-> <<AcmeFoods>>, tail |-> KeywordTail({Marchio}), broken |-> FALSE],
                    LocationElement,
                    [head |-> <<AcmeFoods>>, tail |-> KeywordTail({Marchio}), broken |-> FALSE],
                    [head |-> <<<<"Beta", " ">>>>, tail |-> <<>>, broken |-> FALSE]>>,
     extra |-> <<>>,
     tables |-> <<>>]

\* a page whose records come from the scanner
TextPage == [elements |-> <<>>, extra |-> <<MarkerA, AcmeFoods, MarkerB>>, tables |-> <<>>]

\* a page whose record comes from a table
TablePage == [elements |-> <<>>, extra |-> <<>>, tables |-> <<DeltaTable>>]

ScrapePages == {EmptyPage, ElementPage, TextPage, TablePage}

LimitValues == {<<>>} \cup {<<n>> : n \in 0..MaxLimit}

\* the number of get_page calls made so far
Fetches == Cardinality({k \in 1..Len(calls) : calls[k].fn = "get_page"})

\* a constructed scraper at the entry of scrape_exhibitors_list(limit)
InitScrape ==
    /\ text = EmptyStr
    /\ lines = <<>>
    /\ i = 0
    /\ current_exhibitor = <<>>
    /\ exhibitors = <<>>
    /\ given = <<>>
    /\ cleaned = <<>>
    /\ kept = <<>>
    /\ recleaned = <<>>
    /\ pc = "scrape_start"
    /\ use_selenium = FALSE
    /\ driver = None
    /\ logger = "set"
    /\ exhibitors_data = <<>>
    /\ raw_text_data = <<>>
    /\ page = None
    /\ calls = <<>>
    /\ result = None
    /\ raised = ""
    /\ limit \in LimitValues
    /\ url = None
    /\ max_retries = 0
    /\ attempt = 0
    /\ slept = <<>>

\* soup = self.get_page(self.base_url); if not soup: raise
MainFetchFails ==
    /\ pc = "scrape_start"
    /\ calls' = <<GetPageCall(base_url, FALSE)>>
    /\ raised' = "CibusScraperException"
    /\ pc' = "scrape_raised"
    /\ UNCHANGED <<textVars, fieldVars, page, result, limit, url, max_retries, attempt, slept>>

\* the main page is fetched and extracted
MainFetched ==
    /\ pc = "scrape_start"
    /\ \E soup \in ScrapePages :
          \E out \in {extract_exhibitors_from_page(soup, raw_text_data)} :
              /\ calls' = <<GetPageCall(base_url, TRUE), ExtractCall(base_url, out.exhibitors)>>
              /\ exhibitors' = out.exhibitors
              /\ raw_text_data' = out.raw_text_data
              /\ pc' = IF TriesAlternatives(out.exhibitors) THEN "alternatives" ELSE "limit"
    /\ UNCHANGED <<text, lines, i, current_exhibitor, given, cleaned, kept, recleaned>>
    /\ UNCHANGED <<exhibitors_data, use_selenium, driver, logger>>
    /\ UNCHANGED <<page, result, raised, limit, url, max_retries, attempt, slept>>

\* soup = self.get_page(alt_url) gives no page
AlternativeFails ==
    /\ pc = "alternatives"
    /\ Fetches <= Len(alternative_urls)
    /\ calls' = Append(calls, GetPageCall(alternative_urls[Fetches], FALSE))
    /\ UNCHANGED <<textVars, pc, fieldVars, page, result, raised, limit, url, max_retries,
                   attempt, slept>>

\* an alternative page is fetched and extracted
AlternativeFetched ==
    /\ pc = "alternatives"
    /\ Fetches <= Len(alternative_urls)
    /\ \E soup \in ScrapePages :
          \E out \in {extract_exhibitors_from_page(soup, raw_text_data)} :
          LET alt_url == alternative_urls[Fetches]
          IN  /\ calls' = calls \o <<GetPageCall(alt_url, TRUE),
                                     ExtractCall(alt_url, out.exhibitors)>>
              /\ raw_text_data' = out.raw_text_data
              /\ IF AlternativeTaken(out.exhibitors)
                 THEN /\ exhibitors' = exhibitors \o out.exhibitors
                      /\ pc' = "limit"
                 ELSE UNCHANGED <<exhibitors, pc>>
    /\ UNCHANGED <<text, lines, i, current_exhibitor, given, cleaned, kept, recleaned>>
    /\ UNCHANGED <<exhibitors_data, use_selenium, driver, logger>>
    /\ UNCHANGED <<page, result, raised, limit, url, max_retries, attempt, slept>>

\* the for loop over alternative_urls ends without a break
AlternativesExhausted ==
    /\ pc = "alternatives"
    /\ Fetches > Len(alternative_urls)
    /\ pc' = "limit"
    /\ UNCHANGED <<textVars, scraperVars>>

\* the limit is applied, the list cleaned, stored and returned
LimitCleanStore ==
    /\ pc = "limit"
    /\ \E out \in {clean_exhibitors_data(Limited(exhibitors, limit)).cleaned} :
           /\ exhibitors' = out
           /\ exhibitors_data' = out
           /\ result' = out
    /\ pc' = "scraped"
    /\ UNCHANGED <<text, lines, i, current_exhibitor, given, cleaned, kept, recleaned>>
    /\ UNCHANGED <<raw_text_data, use_selenium, driver, logger>>
    /\ UNCHANGED <<page, calls, raised, limit, url, max_retries, attempt, slept>>

NextScrape ==
    \/ MainFetchFails
    \/ MainFetched
    \/ AlternativeFails
    \/ AlternativeFetched
    \/ AlternativesExhausted
    \/ LimitCleanStore

SpecScrape == InitScrape /\ [][NextScrape]_vars

(***************************************************************************)
(* Vocabulary of the properties.                                           *)
(***************************************************************************)
Range(s) == {s[k] : k \in 1..Len(s)}

\* the identity triplet of a record, as its fields stand
Triple(e) == <<Get(e, "name"), Get(e, "pavilion"), Get(e, "stand")>>

\* the identity triplet after trimming leading/trailing whitespace
TrimmedTriple(e) ==
    <<strip(Get(e, "name")), strip(Get(e, "pavilion")), strip(Get(e, "stand"))>>

\* a record is identified if its name or its pavilion is non-empty
Identified(e) == Get(e, "name") # EmptyStr \/ Get(e, "pavilion") # EmptyStr

(***************************************************************************)
(* Properties of clean_exhibitors_data (checked under SpecClean).          *)
(***************************************************************************)

\* C1: key equality is whitespace-insensitive: of two input records whose
\* (name, pavilion, stand) are equal after trimming only the first is kept,
\* and no two output records have the same (name, pavilion, stand).
C1_KeyIsWhitespaceInsensitive ==
    pc = "cleaned" =>
        /\ \A a, b \in 1..Len(given) :
              (/\ a < b
               /\ TrimmedTriple(given[a]) = TrimmedTriple(given[b])
               /\ Identified(CleanUp(given[a])))
                  => b \notin Range(kept)
        /\ \A a, b \in 1..Len(cleaned) :
              a # b => Triple(cleaned[a]) # Triple(cleaned[b])

\* C2: normalizing the normalizer's own output returns it unchanged.
C2_Idempotent == pc = "recleaned" => recleaned = cleaned

\* C3: the output holds the kept input objects in input order (a subsequence
\* of the input, each with its fields stripped), and of two input records with
\* identical (name, pavilion, stand) the later one is never in the output, so
\* a kept record is the first occurrence of its triplet.
C3_OrderPreservingFirstWins ==
    pc = "cleaned" =>
        /\ Len(kept) = Len(cleaned)
        /\ \A k \in 1..Len(kept) : kept[k] \in 1..Len(given)
        /\ \A k, m \in 1..Len(kept) : k < m => kept[k] < kept[m]
        /\ \A k \in 1..Len(kept) :
              /\ cleaned[k] = exhibitors[kept[k]]
              /\ cleaned[k] = CleanUp(given[kept[k]])
        /\ \A a, b \in 1..Len(given) :
              (a < b /\ Triple(given[a]) = Triple(given[b])) => b \notin Range(kept)

\* C3 witness: two identified input records with the same triplet and different
\* descriptions were normalized; the earlier one is in the output.
C3_Witness ==
    /\ pc = "cleaned"
    /\ \E a, b \in 1..Len(given) :
          /\ a < b
          /\ Triple(given[a]) = Triple(given[b])
          /\ given[a].description # given[b].description
          /\ Identified(given[a])
          /\ a \in Range(kept)
          /\ Len(cleaned) = 1

\* C4: a record is dropped only if it is unidentified or an earlier input
\* record has the same three field values.
C4_IdentityIsTheTriplet ==
    pc = "cleaned" =>
        \A b \in 1..Len(given) :
            (/\ Identified(given[b])
             /\ \A a \in 1..(b - 1) : Triple(given[a]) # Triple(given[b]))
                => b \in Range(kept)

\* C5: every output record has a non-empty name or a non-empty pavilion.
C5_OutputIsIdentified ==
    pc = "cleaned" => \A k \in 1..Len(cleaned) : Identified(cleaned[k])

(***************************************************************************)
(* Properties of parse_raw_text_data (checked under Spec).                 *)
(***************************************************************************)
IsMarker(line) == pavilion_match(line).found

\* the members of a set of positions, ascending
RECURSIVE Ascending(_)
Ascending(S) ==
    IF S = {} THEN <<>>
    ELSE LET m == CHOOSE a \in S : \A b \in S : a <= b
         IN  <<m>> \o Ascending(S \ {m})

\* the positions of the marker lines among the first n lines
MarkerPositions(n) == Ascending({k \in 1..n : IsMarker(lines[k])})

\* ' '.join(ls)
RECURSIVE JoinSpaces(_)
JoinSpaces(ls) ==
    IF ls = <<>> THEN EmptyStr
    ELSE IF Len(ls) = 1 THEN Head(ls)
         ELSE Head(ls) \o <<" ">> \o JoinSpaces(Tail(ls))

NoMarkerLine == \A k \in 1..Len(lines) : ~IsMarker(lines[k])

\* C6 as stated: a text without a marker line yields at most one record, and
\* its non-empty lines are folded into that record: the first is its name, the
\* others its description.
C6_NoMarkerFoldsIntoOneRecord ==
    (pc = "scanned" /\ NoMarkerLine) =>
        /\ Len(exhibitors) <= 1
        /\ lines # <<>> =>
              /\ Len(exhibitors) = 1
              /\ exhibitors[1].name = lines[1]
              /\ exhibitors[1].description = JoinSpaces(Tail(lines))

\* C6 amended: a text without a marker line never opens a record and yields
\* the empty list, whatever its lines.
C6_NoMarkerNoRecord ==
    (pc \in {"scan", "scanned"} /\ NoMarkerLine) =>
        exhibitors = <<>> /\ current_exhibitor = <<>>

\* C6 witness: a text of at least two non-empty lines, none a marker, was scanned.
C6_Witness ==
    pc = "scanned" /\ NoMarkerLine /\ Len(lines) >= 2 /\ exhibitors = <<>>

\* C7: at every point of the scan the records sealed so far, plus the open
\* one, are exactly the marker lines the cursor has passed, in order, each with
\* the pavilion and stand of its own marker line; the returned list is that of
\* all marker lines.
C7_OneRecordPerMarker ==
    pc \in {"scan", "scanned"} =>
        LET ms == MarkerPositions(i)
            recs == IF pc = "scan" /\ DictTruthy(current_exhibitor)
                    THEN Append(exhibitors, current_exhibitor)
                    ELSE exhibitors
        IN  /\ i <= Len(lines)
            /\ pc = "scanned" => i = Len(lines)
            /\ Len(recs) = Len(ms)
            /\ \A k \in 1..Len(ms) :
                  /\ recs[k].pavilion = pavilion_match(lines[ms[k]]).group1
                  /\ recs[k].stand = pavilion_match(lines[ms[k]]).group2

\* C7 witness: a text in which a marker line directly follows a marker line was
\* scanned to the end.
C7_Witness ==
    /\ pc = "scanned"
    /\ Len(exhibitors) >= 2
    /\ \E k \in 1..(Len(lines) - 1) : IsMarker(lines[k]) /\ IsMarker(lines[k + 1])

\* C8 as stated: after a marker, a next line equal to a type keyword is
\* consumed as the type and not as the name; any other next line that does not
\* match the marker pattern is consumed as the name.
C8_LookaheadUnlessMarker ==
    [][(pc = "scan" /\ i + 1 < Len(lines) /\ IsMarker(lines[i + 1])) =>
          IF lines[i + 2] \in TypeKeywords
          THEN /\ current_exhibitor'.type = lines[i + 2]
               /\ current_exhibitor'.name = EmptyStr
               /\ i' = i + 2
          ELSE ~IsMarker(lines[i + 2]) =>
                  /\ current_exhibitor'.name = lines[i + 2]
                  /\ i' = i + 2]_vars

\* C8 amended: after a marker, a next line equal to a type keyword is consumed
\* as the type and not as the name; any other next line that does not contain
\* 'Padiglione' is consumed as the name; a next line that contains 'Padiglione'
\* is not consumed by the lookahead, marker or not.
C8_LookaheadUnlessPadiglione ==
    [][(pc = "scan" /\ i + 1 < Len(lines) /\ IsMarker(lines[i + 1])) =>
          IF lines[i + 2] \in TypeKeywords
          THEN /\ current_exhibitor'.type = lines[i + 2]
               /\ current_exhibitor'.name = EmptyStr
               /\ i' = i + 2
          ELSE IF ~SearchPadiglione(lines[i + 2])
               THEN /\ current_exhibitor'.name = lines[i + 2]
                    /\ current_exhibitor'.type = <<"Espositore">>
                    /\ i' = i + 2
               ELSE /\ current_exhibitor'.name = EmptyStr
                    /\ current_exhibitor'.type = <<"Espositore">>
                    /\ i' = i + 1]_vars

\* C8 witness: the lookahead has just consumed the line after a marker as the name.
C8_Witness ==
    /\ pc = "scan"
    /\ i >= 2
    /\ IsMarker(lines[i - 1])
    /\ lines[i] \notin TypeKeywords
    /\ ~SearchPadiglione(lines[i])
    /\ current_exhibitor.name = lines[i]
    /\ current_exhibitor.description = EmptyStr

\* C9, on the records none of whose lines holds 'Padiglione': the lines between
\* the record's marker and the next one that are not type keywords are all
\* kept: the first is the name, and the description is the others, in order,
\* joined by single spaces, with no leading or trailing separator.
C9_DescriptionIsJoinedLines ==
    pc = "scanned" =>
        LET ms == MarkerPositions(Len(lines))
        IN  \A k \in 1..Len(ms) :
                LET hi == IF k < Len(ms) THEN ms[k + 1] - 1 ELSE Len(lines)
                    between == SubSeq(lines, ms[k] + 1, hi)
                    body == SelectSeq(between, LAMBDA l : l \notin TypeKeywords)
                IN  (/\ k <= Len(exhibitors)
                     /\ \A n \in 1..Len(between) : ~SearchPadiglione(between[n])) =>
                       IF body = <<>>
                       THEN /\ exhibitors[k].name = EmptyStr
                            /\ exhibitors[k].description = EmptyStr
                       ELSE /\ exhibitors[k].name = Head(body)
                            /\ exhibitors[k].description = JoinSpaces(Tail(body))

(***************************************************************************)
(* Scanning then normalizing (checked under Spec).                         *)
(***************************************************************************)
\* "Padiglione 4 - Stand A 12\nAcme Foods\nMarchio" twice
ScenarioText ==
    JoinLines(<<MarkerA, AcmeFoods, <<"Marchio">>, MarkerA, AcmeFoods, <<"Marchio">>>>)

\* C10: a text made of the same block (marker, name, type keyword) twice is
\* scanned and normalized to exactly one record; for the scenario text it is
\* pavilion '4', stand 'A 12', name 'Acme Foods', type 'Marchio'.
C10_RepeatedBlockYieldsOneRecord ==
    pc = "cleaned" =>
        /\ (\E b \in BlockValues : text = JoinLines(<<b, b>>)) => Len(cleaned) = 1
        /\ text = ScenarioText =>
              cleaned = <<[pavilion |-> <<"4">>, stand |-> <<"A", " ", "12">>,
                           name |-> AcmeFoods, type |-> <<"Marchio">>,
                           description |-> EmptyStr, products |-> <<>>]>>

\* C10 witness: the scenario text was scanned into two records and normalized.
C10_Witness ==
    pc = "cleaned" /\ text = ScenarioText /\ Len(given) = 2 /\ Len(cleaned) = 1

(***************************************************************************)
(* Vocabulary of the page properties.                                      *)
(***************************************************************************)
\* extract_exhibitors_from_page is running or has returned
Coordinated == pc \in {"method2", "method3", "page_return", "page_returned"}

\* the positions in the call log of the calls of fn
CallsOf(fn) == {k \in 1..Len(calls) : calls[k].fn = fn}

ElementCalls == CallsOf("extract_exhibitor_from_element")
ParseCalls == CallsOf("parse_raw_text_data")
TableCalls == CallsOf("extract_exhibitors_from_table")

\* the concatenation of the lists logged as returned at the positions K
RECURSIVE Returned(_)
Returned(K) ==
    IF K = {} THEN <<>>
    ELSE LET a == CHOOSE a \in K : \A b \in K : a <= b
         IN  calls[a].ret \o Returned(K \ {a})

\* C11: the coordinator calls the strategies in the order elements, scanner,
\* tables; the scanner only when no element gave a record, the table
\* extractor only when the scanner also gave none; what it returns is the
\* output of exactly one strategy, and is empty only when all three are.
C11_FirstNonEmptyStrategy ==
    Coordinated =>
        /\ \A a \in ElementCalls : \A b \in ParseCalls \cup TableCalls : a < b
        /\ \A b \in ParseCalls : \A c \in TableCalls : b < c
        /\ Cardinality(ParseCalls) <= 1
        /\ ParseCalls # {} => Returned(ElementCalls) = <<>>
        /\ TableCalls # {} =>
               /\ Returned(ElementCalls) = <<>>
               /\ ParseCalls # {}
               /\ Returned(ParseCalls) = <<>>
        /\ pc = "page_returned" =>
               /\ \/ /\ result = Returned(ElementCalls)
                     /\ result # <<>>
                     /\ ParseCalls = {} /\ TableCalls = {}
                  \/ /\ result = Returned(ParseCalls)
                     /\ result # <<>>
                     /\ Returned(ElementCalls) = <<>> /\ TableCalls = {}
                  \/ /\ result = Returned(TableCalls)
                     /\ Returned(ElementCalls) = <<>>
                     /\ ParseCalls # {} /\ Returned(ParseCalls) = <<>>
                     /\ Cardinality(TableCalls) = Len(page.tables)
               /\ Cardinality(ElementCalls) = Len(page.elements)
               /\ result = <<>> <=>
                      /\ \A k \in 1..Len(page.elements) :
                            extract_exhibitor_from_element(page.elements[k]) = <<>>
                      /\ parse_raw_text_data(get_text(page)) = <<>>
                      /\ \A k \in 1..Len(page.tables) :
                            extract_exhibitors_from_table(page.tables[k]) = <<>>

\* a page with an element and a table whose records all come from the scanner
C11_Witness ==
    /\ pc = "page_returned"
    /\ page.elements # <<>>
    /\ page.tables # <<>>
    /\ ParseCalls # {}
    /\ TableCalls = {}
    /\ result # <<>>
    /\ result = Returned(ParseCalls)

\* a step of extract_exhibitors_from_page or of an extractor called alone
InExtract == pc \in {"page_start", "method2", "method3", "page_return"}

\* C12: a call of extract_exhibitors_from_page leaves every field of the
\* scraper object unchanged, exhibitors_data and raw_text_data included.
C12_ExtractionChangesNoField == [][InExtract => fieldVars' = fieldVars]_vars

\* C12 (as the code has it): extraction leaves exhibitors_data, use_selenium,
\* driver and logger unchanged, and appends the page's text to raw_text_data
\* exactly when no structured element gave a record.
C12_ExtractionOnlyRemembersText ==
    [][InExtract =>
          /\ <<exhibitors_data, use_selenium, driver, logger>>'
                 = <<exhibitors_data, use_selenium, driver, logger>>
          /\ raw_text_data' =
                 IF pc = "method2" /\ Returned(ElementCalls) = <<>>
                 THEN raw_text_data \o <<get_text(page)>>
                 ELSE raw_text_data]_vars

\* a page whose text was added to what an earlier page had left
C12_Witness ==
    /\ pc = "page_returned"
    /\ ParseCalls # {}
    /\ raw_text_data = <<EarlierText, get_text(page)>>

\* the three keywords with their priorities, 1 the highest
Rank(kw) ==
    CASE kw = CoEspositore -> 1
      [] kw = Marchio -> 2
      [] kw = AziendaRappresentata -> 3
      [] OTHER -> 4

\* the keywords occurring in the text s
Present(s) == {kw \in {CoEspositore, Marchio, AziendaRappresentata} : Contains(s, kw)}

\* C13: the type extract_exhibitor_from_element gives is the keyword of
\* highest priority (Co-espositore, Marchio, Azienda Rappresentata) found in
\* the element's text, and 'Espositore' when none is found.
C13_HighestPriorityKeyword ==
    \A k \in ElementCalls :
        calls[k].ret # <<>> =>
            LET present == Present(ElementText(page.elements[calls[k].arg]))
                type == calls[k].ret[1].type
            IN  /\ present = {} => type = Espositore
                /\ present # {} =>
                       /\ type \in present
                       /\ \A kw \in present : Rank(type) <= Rank(kw)

\* an element naming all three keywords, Co-espositore last in its text
C13_Witness ==
    \E k \in ElementCalls :
        /\ calls[k].ret # <<>>
        /\ Cardinality(Present(ElementText(page.elements[calls[k].arg]))) = 3
        /\ calls[k].ret[1].type = CoEspositore

\* the rows with at least two cells and a non-empty first-cell text
NamedRows(rows) == {r \in 1..Len(rows) : Len(rows[r]) >= 2 /\ strip(rows[r][1]) # EmptyStr}

\* the j-th smallest member of K
Nth(K, j) == CHOOSE r \in K : Cardinality({q \in K : q <= r}) = j

\* ret holds, in row order, one record for each named row of rows
RecordPerNamedRow(ret, rows) ==
    /\ Len(ret) = Cardinality(NamedRows(rows))
    /\ \A j \in 1..Len(ret) :
          LET cells == rows[Nth(NamedRows(rows), j)]
          IN  /\ ret[j].name = strip(cells[1])
              /\ ret[j].pavilion = GroupOrEmpty(search_pavilion(cells[2]))
              /\ ret[j].stand = GroupOrEmpty(search_stand(cells[2]))

\* C14: extract_exhibitors_from_table returns, in row order, one record for
\* each row with at least two cells and a non-empty first cell, named by the
\* first cell and located by the second; the table with rows
\* ['Beta Snacks', 'Padiglione 2 - Stand B 5'] and ['', ''] gives one record.
C14_OneRecordPerNamedRow ==
    \A k \in TableCalls :
        LET table == page.tables[calls[k].arg]
        IN  /\ table.fail_at = 0 => RecordPerNamedRow(calls[k].ret, table.rows)
            /\ table = ScenarioTable =>
                   /\ Len(calls[k].ret) = 1
                   /\ calls[k].ret[1].name = <<"Beta", " ", "Snacks">>
                   /\ calls[k].ret[1].pavilion = <<"2">>
                   /\ calls[k].ret[1].stand = <<"B", " ", "5">>

\* the table of the scenario has been extracted
C14_Witness ==
    \E k \in TableCalls :
        /\ page.tables[calls[k].arg] = ScenarioTable
        /\ Len(calls[k].ret) = 1

\* C15: every record extract_exhibitors_from_page returns has one of the four
\* types and a non-empty name or a non-empty pavilion.
C15_ReturnedRecordsWellFormed ==
    pc = "page_returned" =>
        \A j \in 1..Len(result) :
            /\ result[j].type \in {Espositore, CoEspositore, Marchio, AziendaRappresentata}
            /\ result[j].name # EmptyStr \/ result[j].pavilion # EmptyStr

\* records returned from the scanner, one of them typed by a keyword line
C15_Witness ==
    /\ pc = "page_returned"
    /\ ParseCalls # {}
    /\ \E j \in 1..Len(result) : result[j].type = Marchio

\* C16: an error while an element is extracted gives no record, an error
\* while a table is extracted, on whichever row, gives the empty list, and
\* no exception reaches the caller.
C16_ErrorGivesEmptyResult ==
    /\ raised = ""
    /\ \A k \in ElementCalls : page.elements[calls[k].arg].broken => calls[k].ret = <<>>
    /\ \A k \in TableCalls : page.tables[calls[k].arg].fail_at > 0 => calls[k].ret = <<>>

\* C16 (as the code has it): an error while an element is extracted gives no
\* record, an error on a row of a table gives the records of the rows before
\* it, and no exception reaches the caller.
C16_ErrorKeepsEarlierRows ==
    /\ raised = ""
    /\ \A k \in ElementCalls : page.elements[calls[k].arg].broken => calls[k].ret = <<>>
    /\ \A k \in TableCalls :
          LET table == page.tables[calls[k].arg]
          IN  table.fail_at > 0 =>
                  RecordPerNamedRow(calls[k].ret, SubSeq(table.rows, 1, table.fail_at - 1))

\* an error on the second row of a table whose first row gave a record
C16_Witness ==
    \E k \in TableCalls :
        /\ page.tables[calls[k].arg].fail_at = 2
        /\ Len(calls[k].ret) = 1

(***************************************************************************)
(* Properties of construction and fetching (checked under SpecFetch).      *)
(***************************************************************************)
\* C17: constructing the scraper with use_selenium=True never raises: either
\* the WebDriver is stored in driver, or the failure is caught and
\* use_selenium is set to False, so that get_page then uses requests.
C17_ConstructionCompletes ==
    /\ raised = ""
    /\ pc # "init_raised"
    /\ pc \in {"constructed", "attempt", "fetched"} => (use_selenium => driver # None)

\* get_page_requests has been called with max_retries >= 1
InRetryLoop == pc \in {"attempt", "fetched"} /\ max_retries >= 1

\* what holds of the attempts and sleeps of a call at every moment
RetryInvariant ==
    InRetryLoop =>
        /\ Len(calls) <= max_retries
        /\ \A k \in 1..Len(calls) : calls[k].arg = url /\ calls[k].attempt = k - 1
        /\ \A k \in 1..(Len(calls) - 1) : ~calls[k].ok
        /\ Len(slept) >= 1 => slept[1] = 1
        /\ \A j \in 1..(Len(slept) - 1) : slept[j + 1] = 2 * slept[j]
        /\ pc = "attempt" =>
               /\ attempt = Len(calls)
               /\ attempt < max_retries
               /\ Len(slept) = Len(calls)
        /\ pc = "fetched" =>
               /\ Len(calls) >= 1
               /\ Len(slept) = Len(calls) - 1
               /\ result = None <=> (Len(calls) = max_retries /\ ~calls[Len(calls)].ok)
               /\ result # None => (result = url /\ calls[Len(calls)].ok)

\* C20: get_page_requests with max_retries >= 1 makes at most max_retries
\* attempts, returns the page of the first successful one at once, sleeps
\* 1, 2, 4, ... seconds only between a failed attempt and the next, returns
\* None exactly when all attempts failed, and always returns.
C20_RetryProtocol == []RetryInvariant /\ ((pc = "attempt") ~> (pc = "fetched"))

\* the third of three attempts succeeds, after sleeps of 1 and 2 seconds
C20_Witness ==
    /\ pc = "fetched"
    /\ max_retries = 3
    /\ Len(calls) = 3
    /\ calls[3].ok
    /\ result = url
    /\ slept = <<1, 2>>

(***************************************************************************)
(* Properties of scrape_exhibitors_list (checked under SpecScrape).        *)
(***************************************************************************)
GetPageCalls == CallsOf("get_page")
ExtractCalls == CallsOf("extract_exhibitors_from_page")

\* the extract calls that gave records
Yielding == {e \in ExtractCalls : calls[e].ret # <<>>}

\* scrape_exhibitors_list has ended, by a return or by an exception
ScrapeEnded == pc \in {"scraped", "scrape_raised"}

\* C18: scrape_exhibitors_list raises CibusScraperException exactly when the
\* main page's fetch gives no page; the alternatives are fetched only when the
\* main page gave no record, in the listed order, a failed or empty one is
\* passed over, and nothing is fetched after the first one that gave
\* records; the records returned come from one page, and a run in which no
\* page gave a record returns the empty list.
C18_MainFailureOnlyThenAlternatives ==
    pc # "scrape_start" =>
        /\ raised \in {"", "CibusScraperException"}
        /\ (raised = "CibusScraperException") <=> ~calls[1].ok
        /\ (pc = "scrape_raised") <=> ~calls[1].ok
        /\ Cardinality(GetPageCalls) <= 1 + Len(alternative_urls)
        /\ \A j \in 1..Cardinality(GetPageCalls) :
              calls[Nth(GetPageCalls, j)].arg =
                  IF j = 1 THEN base_url ELSE alternative_urls[j - 1]
        /\ Cardinality(GetPageCalls) > 1 => (calls[1].ok /\ calls[2].ret = <<>>)
        /\ \A g \in GetPageCalls :
              calls[g].ok <=> (g + 1 \in ExtractCalls /\ calls[g + 1].arg = calls[g].arg)
        /\ \A e \in ExtractCalls : e - 1 \in GetPageCalls
        /\ \A e \in Yielding : \A g \in GetPageCalls : g < e
        /\ Cardinality(Yielding) <= 1
        /\ pc = "scraped" =>
               /\ Range(result) \subseteq {CleanUp(r) : r \in Range(Returned(Yielding))}
               /\ Yielding = {} =>
                      /\ result = <<>>
                      /\ Cardinality(GetPageCalls) = 1 + Len(alternative_urls)

\* the first alternative fails, the second is empty, the third gives records
C18_Witness ==
    /\ pc = "scraped"
    /\ Cardinality(GetPageCalls) = 4
    /\ ~calls[Nth(GetPageCalls, 2)].ok
    /\ calls[Nth(GetPageCalls, 3)].ok
    /\ calls[Nth(GetPageCalls, 4)].ok
    /\ Cardinality(ExtractCalls) = 3
    /\ result # <<>>

\* the first n records of exs, all of them when there are fewer
FirstN(exs, n) == SubSeq(exs, 1, IF Len(exs) < n THEN Len(exs) ELSE n)

\* C19: for every limit >= 0 the list returned by scrape_exhibitors_list is
\* clean_exhibitors_data of the first `limit` extracted records, so has at
\* most `limit` records, and it is the list stored in exhibitors_data; with
\* limit None nothing is cut.
C19_LimitBoundsResult ==
    pc = "scraped" =>
        /\ exhibitors_data = result
        /\ limit = <<>> =>
               result = clean_exhibitors_data(Returned(ExtractCalls)).cleaned
        /\ limit # <<>> =>
               /\ result = clean_exhibitors_data(
                               FirstN(Returned(ExtractCalls), limit[1])).cleaned
               /\ Len(result) <= limit[1]

====
